---- MODULE Spec2Model ----
(***************************************************************************)
(* Model of solution.py: a Network of Computers holding Addresses and      *)
(* Components (CPU, Memory, Disk with partitions), its tree rendering      *)
(* (Printable.print_me and the print_me / __str__ methods built on it),    *)
(* the lookups (Network.find_computer, BasicCollection.find) and           *)
(* Network.clone (copy.deepcopy).                                          *)
(*                                                                         *)
(* Python objects live on a heap: networks, computers and components are   *)
(* sequences of records and an object's identity is its index.  A          *)
(* reference is an index, None is 0.  A rendered text is a sequence of     *)
(* cells: every glyph, indentation, branch and newline character is one    *)
(* one-character cell, and the text of a node (the os argument of          *)
(* print_me) is one cell.                                                  *)
(***************************************************************************)
EXTENDS Integers, Sequences, FiniteSets, TLC

VARIABLES
    networks,    \* heap of Network objects: [name, computers]
    computers,   \* heap of Computer objects: [name, addresses, items]
    components,  \* heap of CPU / Memory / Disk objects
    n,           \* main's variable n: the network under construction
    x,           \* main's variable x: the clone of n, None before n.clone()
    c,           \* main's variable c: the Computer found in x, None before
    last,        \* the last call made: [op, self, arg, ret, exc]
    pc           \* the caller's position: the statement of main() reached
                 \* (SpecMain), the number of calls made (elsewhere)

vars == <<networks, computers, components, n, x, c, last, pc>>

None == 0
NoExc == "none"
ValueError == "ValueError"

\* Disk.SSD, Disk.MAGNETIC
SSD == 0
MAGNETIC == 1

-----------------------------------------------------------------------------
(* Bounds of the model *)

\* calls the caller of Spec makes
MaxCalls == 7
\* calls the caller of SpecFind makes
MaxFindCalls == 6
\* calls the caller of SpecDisk makes
MaxDiskCalls == 4

-----------------------------------------------------------------------------
(* Helpers on sequences *)

Range(s) == {s[i] : i \in 1..Len(s)}

RECURSIVE ConcatAll(_)
ConcatAll(ss) == IF ss = <<>> THEN <<>> ELSE Head(ss) \o ConcatAll(Tail(ss))

RECURSIVE SumSizes(_)
\* sum(t[0] for t in self.partitions)
SumSizes(ps) == IF ps = <<>> THEN 0 ELSE Head(ps)[1] + SumSizes(Tail(ps))

RECURSIVE Join(_)
\* the str made of a sequence of characters
Join(cs) == IF cs = <<>> THEN "" ELSE Head(cs) \o Join(Tail(cs))

\* the first index of e in s (list.index), 0 when e is not in s
IndexOf(s, e) ==
    IF \E i \in 1..Len(s) : s[i] = e
    THEN CHOOSE i \in 1..Len(s) : s[i] = e /\ \A j \in 1..(i - 1) : s[j] # e
    ELSE 0

-----------------------------------------------------------------------------
(* Printable.print_me *)

\* a print_me that writes the bar whatever no_slash says
print_me_always_bar(os, prefix, is_last, no_slash, is_root) ==
    LET has_prefix == Len(prefix) > 0
        glyph == IF has_prefix THEN <<"|">> ELSE <<>>
        branch == IF (is_root /\ ~has_prefix) \/ has_prefix
                  THEN prefix \o (IF is_last THEN <<"\\", "-">> ELSE <<"+", "-">>)
                  ELSE <<>>
    IN  glyph \o branch \o <<os, "\n">>

print_me(os, prefix, is_last, no_slash, is_root) ==
    LET has_prefix == Len(prefix) > 0
        glyph == IF has_prefix
                 THEN (IF no_slash THEN <<" ">> ELSE <<"|">>)
                 ELSE <<>>
        branch == IF (is_root /\ ~has_prefix) \/ has_prefix
                  THEN prefix \o (IF is_last THEN <<"\\", "-">> ELSE <<"+", "-">>)
                  ELSE <<>>
    IN  glyph \o branch \o <<os, "\n">>

-----------------------------------------------------------------------------
(* The print_me methods of the leaves *)

\* Address.print_me(no_slash): addr is the stored text, a sequence of characters
Address_print_me(addr, no_slash) ==
    print_me(Join(addr), <<" ">>, FALSE, no_slash, FALSE)

\* the f-string of CPU.print_me
CPU_text(self) ==
    "CPU, " \o ToString(components[self].cores) \o " cores @ "
        \o ToString(components[self].mhz) \o "MHz"

\* CPU.print_me(is_last, no_slash)
CPU_print_me(self, is_last, no_slash) ==
    print_me(CPU_text(self), <<" ">>, is_last, no_slash, FALSE)

\* the f-string of Memory.print_me
Memory_text(self) ==
    "Memory, " \o ToString(components[self].size) \o " MiB"

\* Memory.print_me(is_last, no_slash)
Memory_print_me(self, is_last, no_slash) ==
    print_me(Memory_text(self), <<" ">>, is_last, no_slash, FALSE)

\* Disk.__str__
Disk_str(self) ==
    IF components[self].storage_type = 1 THEN "HDD" ELSE "SSD"

\* the f-string of the Disk's own line in Disk.print_me
Disk_text(self) ==
    Disk_str(self) \o ", " \o ToString(components[self].size) \o " GiB"

\* the f-string of partition idx (0-based, as in the code) in Disk.print_me
Partition_text(self, idx) ==
    LET p_size == components[self].partitions[idx + 1][1]
        p_type == components[self].partitions[idx + 1][2]
    IN  "[" \o ToString(idx) \o "]: " \o ToString(p_size) \o " GiB, " \o p_type

\* Disk.print_me(is_last, no_slash)
Disk_print_me(self, is_last, no_slash) ==
    LET partitions_count == Len(components[self].partitions)
        own == print_me(Disk_text(self), <<" ">>, is_last, no_slash, FALSE)
        part(idx) ==
            IF idx = partitions_count - 1
            THEN print_me(Partition_text(self, idx), <<" ", " ", " ">>,
                          TRUE, no_slash, FALSE)
            ELSE print_me(Partition_text(self, idx), <<" ", " ", " ">>,
                          FALSE, no_slash, FALSE)
    IN  own \o ConcatAll([i \in 1..partitions_count |-> part(i - 1)])

\* self._items[idx].print_me(is_last=..., no_slash=...): dynamic dispatch
Component_print_me(self, is_last, no_slash) ==
    CASE components[self].type = "CPU" -> CPU_print_me(self, is_last, no_slash)
      [] components[self].type = "Memory" -> Memory_print_me(self, is_last, no_slash)
      [] components[self].type = "Disk" -> Disk_print_me(self, is_last, no_slash)

-----------------------------------------------------------------------------
(* The composites *)

\* the f-string of Computer.print_me
Computer_text(self) == "Host: " \o computers[self].name

\* a Computer.print_me that writes the components before the addresses
Computer_print_me_components_first(self, is_last, no_slash) ==
    LET me == computers[self]
        components_count == Len(me.items)
        header == print_me(Computer_text(self), <<>>, is_last, FALSE, TRUE)
        addrs == ConcatAll([i \in 1..Len(me.addresses) |->
                               Address_print_me(me.addresses[i], no_slash)])
        comp(idx) ==
            IF idx = components_count - 1
            THEN Component_print_me(me.items[idx + 1], TRUE, is_last)
            ELSE Component_print_me(me.items[idx + 1], FALSE, is_last)
    IN  header \o ConcatAll([i \in 1..components_count |-> comp(i - 1)]) \o addrs

\* Computer.print_me(is_last, no_slash)
Computer_print_me(self, is_last, no_slash) ==
    LET me == computers[self]
        components_count == Len(me.items)
        header == print_me(Computer_text(self), <<>>, is_last, FALSE, TRUE)
        addrs == ConcatAll([i \in 1..Len(me.addresses) |->
                               Address_print_me(me.addresses[i], no_slash)])
        comp(idx) ==
            IF idx = components_count - 1
            THEN Component_print_me(me.items[idx + 1], TRUE, is_last)
            ELSE Component_print_me(me.items[idx + 1], FALSE, is_last)
    IN  header \o addrs \o ConcatAll([i \in 1..components_count |-> comp(i - 1)])

\* the characters str.rstrip() removes
Whitespace == {" ", "\n", "\t", "\r", "\f"}

RECURSIVE rstrip(_)
\* str.rstrip() on a text whose node texts neither are empty nor end in whitespace
rstrip(val) ==
    IF val # <<>> /\ val[Len(val)] \in Whitespace
    THEN rstrip(SubSeq(val, 1, Len(val) - 1))
    ELSE val

\* the f-string of Network.__str__
Network_text(self) == "Network: " \o networks[self].name

\* Network.__str__
Network_str(self) ==
    LET net == networks[self]
        computers_count == Len(net.computers)
        header == print_me(Network_text(self), <<>>, FALSE, FALSE, FALSE)
        comp(idx) ==
            IF idx = computers_count - 1
            THEN Computer_print_me(net.computers[idx + 1], TRUE, TRUE)
            ELSE Computer_print_me(net.computers[idx + 1], FALSE, FALSE)
    IN  rstrip(header \o ConcatAll([i \in 1..computers_count |-> comp(i - 1)]))

-----------------------------------------------------------------------------
(* Constructors: each allocates one object at the end of its heap *)

\* the record of a call: op(self, arg) returned ret or raised exc
Call(op, self, arg, ret, exc) ==
    [op |-> op, self |-> self, arg |-> arg, ret |-> ret, exc |-> exc]

\* Computer.__init__(name)
Computer_init(name) ==
    /\ computers' = Append(computers,
                           [name |-> name, addresses |-> <<>>, items |-> <<>>])
    /\ last' = Call("Computer", None, name, Len(computers) + 1, NoExc)
    /\ UNCHANGED <<networks, components, n, x>>

\* CPU.__init__(cores, mhz)
CPU_init(cores, mhz) ==
    /\ components' = Append(components,
                            [type |-> "CPU", cores |-> cores, mhz |-> mhz])
    /\ last' = Call("CPU", None, <<cores, mhz>>, Len(components) + 1, NoExc)
    /\ UNCHANGED <<networks, computers, n, x>>

\* Memory.__init__(size)
Memory_init(size) ==
    /\ components' = Append(components, [type |-> "Memory", size |-> size])
    /\ last' = Call("Memory", None, size, Len(components) + 1, NoExc)
    /\ UNCHANGED <<networks, computers, n, x>>

\* Disk.__init__(storage_type, size)
Disk_init(storage_type, size) ==
    /\ IF storage_type \notin {SSD, MAGNETIC}
       THEN /\ last' = Call("Disk", None, <<storage_type, size>>, None, ValueError)
            /\ UNCHANGED components
       ELSE /\ components' = Append(components,
                                    [type |-> "Disk",
                                     storage_type |-> storage_type,
                                     size |-> size,
                                     partitions |-> <<>>])
            /\ last' = Call("Disk", None, <<storage_type, size>>,
                            Len(components) + 1, NoExc)
    /\ UNCHANGED <<networks, computers, n, x>>

-----------------------------------------------------------------------------
(* The add operations *)

Digits == {"0", "1", "2", "3", "4", "5", "6", "7", "8", "9"}

\* Address.validate(addr): re.match of [0-9]{1,3}\.{0,1} succeeds exactly when
\* addr starts with a digit
validate(addr) == Len(addr) > 0 /\ addr[1] \in Digits

\* Computer.add_address(addr)
add_address(self, addr) ==
    /\ IF validate(addr)
       THEN /\ computers' = [computers EXCEPT
                                ![self].addresses = Append(@, addr)]
            /\ last' = Call("add_address", self, addr, self, NoExc)
       ELSE /\ last' = Call("add_address", self, addr, None, ValueError)
            /\ UNCHANGED computers
    /\ UNCHANGED <<networks, components, n, x>>

\* Computer.add_component(comp), BasicCollection.add(elem)
add_component(self, comp) ==
    /\ computers' = [computers EXCEPT ![self].items = Append(@, comp)]
    /\ last' = Call("add_component", self, comp, self, NoExc)
    /\ UNCHANGED <<networks, components, n, x>>

\* an add_partition that compares size with the size of the Disk, not with
\* the space that remains
add_partition_total(self, size, name) ==
    /\ IF size > components[self].size
       THEN /\ last' = Call("add_partition", self, <<size, name>>, None,
                            ValueError)
            /\ UNCHANGED components
       ELSE /\ components' = [components EXCEPT
                                 ![self].partitions = Append(@, <<size, name>>)]
            /\ last' = Call("add_partition", self, <<size, name>>, self, NoExc)
    /\ UNCHANGED <<networks, computers, n, x>>

\* an add_partition that rejects a partition filling the Disk exactly
add_partition_strict(self, size, name) ==
    LET reminder == components[self].size - SumSizes(components[self].partitions)
    IN  /\ IF size >= reminder
           THEN /\ last' = Call("add_partition", self, <<size, name>>, None,
                                ValueError)
                /\ UNCHANGED components
           ELSE /\ components' = [components EXCEPT
                                     ![self].partitions = Append(@, <<size, name>>)]
                /\ last' = Call("add_partition", self, <<size, name>>, self, NoExc)
        /\ UNCHANGED <<networks, computers, n, x>>

\* Disk.add_partition(size, name)
add_partition(self, size, name) ==
    LET reminder == components[self].size - SumSizes(components[self].partitions)
    IN  /\ IF size > reminder
           THEN /\ last' = Call("add_partition", self, <<size, name>>, None,
                                ValueError)
                /\ UNCHANGED components
           ELSE /\ components' = [components EXCEPT
                                     ![self].partitions = Append(@, <<size, name>>)]
                /\ last' = Call("add_partition", self, <<size, name>>, self, NoExc)
        /\ UNCHANGED <<networks, computers, n, x>>

\* Network.add_computer(comp)
add_computer(self, comp) ==
    /\ networks' = [networks EXCEPT ![self].computers = Append(@, comp)]
    /\ last' = Call("add_computer", self, comp, self, NoExc)
    /\ UNCHANGED <<computers, components, n, x>>

-----------------------------------------------------------------------------
(* Lookup *)

\* the value Network.find_computer(name) returns
found_computer(self, name) ==
    LET found == SelectSeq(networks[self].computers,
                           LAMBDA k : computers[k].name = name)
    IN  IF Len(found) > 0 THEN found[1] ELSE None

\* a find_computer that returns the last match
find_computer_last(self, name) ==
    LET found == SelectSeq(networks[self].computers,
                           LAMBDA k : computers[k].name = name)
    IN  /\ last' = Call("find_computer", self, name,
                        IF Len(found) > 0 THEN found[Len(found)] ELSE None, NoExc)
        /\ UNCHANGED <<networks, computers, components, n, x>>

\* Network.find_computer(name)
find_computer(self, name) ==
    /\ last' = Call("find_computer", self, name, found_computer(self, name), NoExc)
    /\ UNCHANGED <<networks, computers, components, n, x>>

\* a find that returns None when elem is not in the list
find_or_none(self, elem) ==
    LET index == IndexOf(computers[self].items, elem)
    IN  /\ IF index = 0
           THEN last' = Call("find", self, elem, None, NoExc)
           ELSE last' = Call("find", self, elem, computers[self].items[index], NoExc)
        /\ UNCHANGED <<networks, computers, components, n, x>>

\* BasicCollection.find(elem) on a Computer: list.index raises ValueError when
\* elem is not in the list
find(self, elem) ==
    LET index == IndexOf(computers[self].items, elem)
    IN  /\ IF index = 0
           THEN last' = Call("find", self, elem, None, ValueError)
           ELSE last' = Call("find", self, elem, computers[self].items[index], NoExc)
        /\ UNCHANGED <<networks, computers, components, n, x>>

-----------------------------------------------------------------------------
(* Network.clone: copy.deepcopy *)

RECURSIVE Dedup(_)
\* the distinct elements of s in the order of their first occurrence: the order
\* in which deepcopy meets, and copies, the objects of a list
Dedup(s) ==
    IF s = <<>> THEN <<>>
    ELSE LET r == Dedup(SubSeq(s, 1, Len(s) - 1))
         IN  IF s[Len(s)] \in Range(r) THEN r ELSE Append(r, s[Len(s)])

\* the Computer objects deepcopy reaches from a Network, and the components it
\* reaches from them
ReachComputers(self) == Dedup(networks[self].computers)
ReachComponents(self) ==
    LET rc == ReachComputers(self)
    IN  Dedup(ConcatAll([i \in 1..Len(rc) |-> computers[rc[i]].items]))

\* a clone that copies the Network and its list but not the Computers held
Network_clone_shallow(self) ==
    /\ networks' = Append(networks, networks[self])
    /\ x' = Len(networks) + 1
    /\ last' = Call("clone", self, None, Len(networks) + 1, NoExc)
    /\ UNCHANGED <<computers, components, n>>

\* a clone that copies every Disk without its partitions
Network_clone_no_partitions(self) ==
    LET rc == ReachComputers(self)
        re == ReachComponents(self)
        newComputer(k) == Len(computers) + IndexOf(rc, k)
        newComponent(e) == Len(components) + IndexOf(re, e)
        copyComputer(k) ==
            [name |-> computers[k].name,
             addresses |-> computers[k].addresses,
             items |-> [i \in 1..Len(computers[k].items) |->
                           newComponent(computers[k].items[i])]]
        copyComponent(e) ==
            IF components[e].type = "Disk"
            THEN [components[e] EXCEPT !.partitions = <<>>]
            ELSE components[e]
    IN  /\ components' = components \o [i \in 1..Len(re) |-> copyComponent(re[i])]
        /\ computers' = computers \o [i \in 1..Len(rc) |-> copyComputer(rc[i])]
        /\ networks' = Append(networks,
                              [name |-> networks[self].name,
                               computers |->
                                   [i \in 1..Len(networks[self].computers) |->
                                       newComputer(networks[self].computers[i])]])
        /\ x' = Len(networks) + 1
        /\ last' = Call("clone", self, None, Len(networks) + 1, NoExc)
        /\ UNCHANGED n

\* Network.clone(): every object reached is copied once (deepcopy's memo) and
\* every reference is redirected to the copy
Network_clone(self) ==
    LET rc == ReachComputers(self)
        re == ReachComponents(self)
        newComputer(k) == Len(computers) + IndexOf(rc, k)
        newComponent(e) == Len(components) + IndexOf(re, e)
        copyComputer(k) ==
            [name |-> computers[k].name,
             addresses |-> computers[k].addresses,
             items |-> [i \in 1..Len(computers[k].items) |->
                           newComponent(computers[k].items[i])]]
    IN  /\ components' = components \o [i \in 1..Len(re) |-> components[re[i]]]
        /\ computers' = computers \o [i \in 1..Len(rc) |-> copyComputer(rc[i])]
        /\ networks' = Append(networks,
                              [name |-> networks[self].name,
                               computers |->
                                   [i \in 1..Len(networks[self].computers) |->
                                       newComputer(networks[self].computers[i])]])
        /\ x' = Len(networks) + 1
        /\ last' = Call("clone", self, None, Len(networks) + 1, NoExc)
        /\ UNCHANGED n

-----------------------------------------------------------------------------
(* The callers *)

\* the state after n = Network(name)
InitNetwork(name) ==
    /\ networks = <<[name |-> name, computers |-> <<>>]>>
    /\ computers = <<>>
    /\ components = <<>>
    /\ n = 1
    /\ x = None
    /\ c = None
    /\ last = Call("Network", None, name, 1, NoExc)

\* the objects that no collection holds yet.  A caller hands an object to one
\* owner only (a Network owns its Computers, a Computer its components) and
\* builds one object of a kind at a time, as main() does, which constructs
\* every argument of add_computer and add_component in place.
LooseComputers ==
    {k \in 1..Len(computers) :
        \A j \in 1..Len(networks) : k \notin Range(networks[j].computers)}
LooseComponents ==
    {e \in 1..Len(components) :
        \A k \in 1..Len(computers) : e \notin Range(computers[k].items)}
Disks == {e \in 1..Len(components) : components[e].type = "Disk"}

\* one call of a caller that makes at most max calls
Caller(call, max) == pc < max /\ call /\ pc' = pc + 1 /\ UNCHANGED c

-----------------------------------------------------------------------------
(* Spec: a caller builds the network n, clones it into x and goes on adding *)
(* to both                                                                 *)

HostNames == {"h1", "h2"}
AddressTexts == {<<"1", "0">>, <<"7", ".">>}
PartitionNames == {"p", "q"}

Init == InitNetwork("net") /\ pc = 0

Next ==
    \/ \E name \in HostNames :
          LooseComputers = {} /\ Caller(Computer_init(name), MaxCalls)
    \/ LooseComponents = {} /\ Caller(CPU_init(2, 1000), MaxCalls)
    \/ \E st \in {SSD, MAGNETIC} :
          LooseComponents = {} /\ Caller(Disk_init(st, 2), MaxCalls)
    \/ \E k \in 1..Len(computers), addr \in AddressTexts :
          Caller(add_address(k, addr), MaxCalls)
    \/ \E k \in 1..Len(computers), e \in LooseComponents :
          Caller(add_component(k, e), MaxCalls)
    \/ \E d \in Disks, name \in PartitionNames :
          Caller(add_partition(d, 1, name), MaxCalls)
    \/ \E j \in 1..Len(networks), k \in LooseComputers :
          Caller(add_computer(j, k), MaxCalls)
    \/ x = None /\ Caller(Network_clone(n), MaxCalls)

Spec == Init /\ [][Next]_vars

-----------------------------------------------------------------------------
(* Reading a rendered text: its lines, and what the tree says each line is *)

RECURSIVE Lines(_)
\* the lines of a text: the cells between the newline cells
Lines(text) ==
    IF \E i \in 1..Len(text) : text[i] = "\n"
    THEN LET i == IndexOf(text, "\n")
         IN  <<SubSeq(text, 1, i - 1)>> \o Lines(SubSeq(text, i + 1, Len(text)))
    ELSE <<text>>

\* the node text of a line, and the two cells before it
LineText(line) == line[Len(line)]
LineBranch(line) == <<line[Len(line) - 2], line[Len(line) - 1]>>

\* A row says, for one line below the header, what the tree holds there: the
\* node's text, whether the node is the final sibling of its group, and for
\* every proper ancestor other than the Network the column where the
\* ancestor's branch glyph starts and whether the ancestor is a final sibling.
Row(text, final, ancestors) ==
    [text |-> text, final |-> final, ancestors |-> ancestors]
Ancestor(col, final) == [col |-> col, final |-> final]

\* a component (final: it is the last component of its Computer) and, for a
\* Disk, its partitions in insertion order
ComponentRows(e, hostFinal, final) ==
    LET obj == components[e]
        text == CASE obj.type = "CPU" -> CPU_text(e)
                  [] obj.type = "Memory" -> Memory_text(e)
                  [] obj.type = "Disk" -> Disk_text(e)
        parts == IF obj.type = "Disk"
                 THEN [i \in 1..Len(obj.partitions) |->
                          Row(Partition_text(e, i - 1), i = Len(obj.partitions),
                              <<Ancestor(1, hostFinal), Ancestor(3, final)>>)]
                 ELSE <<>>
    IN  <<Row(text, final, <<Ancestor(1, hostFinal)>>)>> \o parts

\* a Computer, its addresses, then its components, in insertion order; the
\* siblings below a Computer are its addresses followed by its components
HostRows(k, hostFinal) ==
    LET na == Len(computers[k].addresses)
        ni == Len(computers[k].items)
    IN  <<Row(Computer_text(k), hostFinal, <<>>)>>
        \o [i \in 1..na |->
               Row(Join(computers[k].addresses[i]), i = na /\ ni = 0,
                   <<Ancestor(1, hostFinal)>>)]
        \o ConcatAll([i \in 1..ni |->
                         ComponentRows(computers[k].items[i], hostFinal, i = ni)])

\* the rows of a Network, its computers in insertion order
NetworkRows(j) ==
    LET cs == networks[j].computers
    IN  ConcatAll([i \in 1..Len(cs) |-> HostRows(cs[i], i = Len(cs))])

RECURSIVE SumOver(_, _)
\* the sum of f[i] for i in 1..k
SumOver(f, k) == IF k = 0 THEN 0 ELSE f[k] + SumOver(f, k - 1)

\* 1 + sum over computers of (1 + #addresses + sum over components of
\* (1 + #partitions for a Disk))
LineCount(j) ==
    LET cs == networks[j].computers
        ofComponent(e) ==
            1 + (IF components[e].type = "Disk"
                 THEN Len(components[e].partitions) ELSE 0)
        ofComputer(k) ==
            1 + Len(computers[k].addresses)
              + SumOver([i \in 1..Len(computers[k].items) |->
                            ofComponent(computers[k].items[i])],
                        Len(computers[k].items))
    IN  1 + SumOver([i \in 1..Len(cs) |-> ofComputer(cs[i])], Len(cs))

-----------------------------------------------------------------------------
(* Claims checked under Spec *)

\* what a caller can observe of a Network: its text and the component count
\* of each of its computers
Observable(j) ==
    <<Network_str(j),
      [i \in 1..Len(networks[j].computers) |->
          Len(computers[networks[j].computers[i]].items)]>>

\* the call just made (recorded in last') was an add on Network j or on an
\* object reached through it: add_computer on j, add_address or add_component
\* on one of its computers, add_partition on a Disk among their components
AddedThrough(j) ==
    \/ last'.op = "add_computer" /\ last'.self = j
    \/ /\ last'.op \in {"add_address", "add_component"}
       /\ last'.self \in Range(networks[j].computers)
    \/ /\ last'.op = "add_partition"
       /\ \E k \in Range(networks[j].computers) :
             last'.self \in Range(computers[k].items)

\* C1: after x = n.clone(), no add made on x or through it changes what is
\* observable of n (its text, the component counts of its computers), and no
\* add made on n or through it changes what is observable of x.
CloneIndependence ==
    [][x # None =>
          /\ AddedThrough(x) => Observable(n)' = Observable(n)
          /\ AddedThrough(n) => Observable(x)' = Observable(x)]_vars

\* C1 witness: a partition was added to a Disk of the clone, and the texts of
\* the clone and of the original now differ
CloneIndependenceWitness ==
    /\ x # None
    /\ last.op = "add_partition" /\ last.exc = NoExc
    /\ \E k \in Range(networks[x].computers) :
          last.self \in Range(computers[k].items)
    /\ Network_str(x) # Network_str(n)

\* the tree below a Network as a value: names, addresses, components and
\* partitions in order, without the identities of the objects
Tree(j) ==
    [name |-> networks[j].name,
     computers |->
        [i \in 1..Len(networks[j].computers) |->
            LET k == networks[j].computers[i]
            IN  [name |-> computers[k].name,
                 addresses |-> computers[k].addresses,
                 items |-> [m \in 1..Len(computers[k].items) |->
                               components[computers[k].items[m]]]]]]

\* C2: right after x = n.clone() the clone renders as the original and holds
\* the same computers, addresses, components and partitions in the same order,
\* in objects of its own.
CloneRoundTrip ==
    last.op = "clone" =>
        /\ Network_str(x) = Network_str(n)
        /\ Tree(x) = Tree(n)
        /\ x # n
        /\ Range(networks[x].computers) \cap Range(networks[n].computers) = {}

\* C2 witness: a network with an address and a Disk with a partition was cloned
CloneRoundTripWitness ==
    /\ last.op = "clone"
    /\ \E k \in Range(networks[n].computers) :
          /\ computers[k].addresses # <<>>
          /\ \E e \in Range(computers[k].items) :
                components[e].type = "Disk" /\ components[e].partitions # <<>>

\* C6: the lines of str(N) below the header are the computers in insertion
\* order, each followed by its addresses in insertion order, then its
\* components in insertion order, each Disk followed by its partitions in
\* insertion order labelled 0, 1, 2, ...; and the number of lines is
\* 1 + sum over computers of (1 + #addresses + sum over components of
\* (1 + #partitions for a Disk)).
OrderPreserved ==
    \A j \in 1..Len(networks) :
        LET ls == Lines(Network_str(j))
            rows == NetworkRows(j)
        IN  /\ Len(ls) = LineCount(j)
            /\ Len(ls) = 1 + Len(rows)
            /\ LineText(ls[1]) = Network_text(j)
            /\ \A i \in 1..Len(rows) : LineText(ls[i + 1]) = rows[i].text

\* C6 witness: a network whose computer has two different addresses and a Disk
\* with a partition
OrderPreservedWitness ==
    \E k \in Range(networks[n].computers) :
        /\ Len(computers[k].addresses) = 2
        /\ computers[k].addresses[1] # computers[k].addresses[2]
        /\ \E e \in Range(computers[k].items) :
              components[e].type = "Disk" /\ components[e].partitions # <<>>

\* C9: on every line of str(N), for every proper ancestor of the line's node
\* other than the Network, the column where the ancestor's branch glyph starts
\* holds "|" when the ancestor is not the last of its siblings and " " when it
\* is: below a Computer in column 1, below a Disk in column 3.
VerticalBars ==
    \A j \in 1..Len(networks) :
        LET ls == Lines(Network_str(j))
            rows == NetworkRows(j)
        IN  \A i \in 1..Len(rows) :
                \A a \in 1..Len(rows[i].ancestors) :
                    ls[i + 1][rows[i].ancestors[a].col]
                        = (IF rows[i].ancestors[a].final THEN " " ELSE "|")

\* C10: on every line of str(N) below the header the branch glyph is "\-" when
\* the node is the final sibling of its group (the computers of the Network,
\* the addresses followed by the components of a Computer, the partitions of a
\* Disk) and "+-" otherwise.
BranchGlyphs ==
    \A j \in 1..Len(networks) :
        LET ls == Lines(Network_str(j))
            rows == NetworkRows(j)
        IN  \A i \in 1..Len(rows) :
                LineBranch(ls[i + 1])
                    = (IF rows[i].final THEN <<"\\", "-">> ELSE <<"+", "-">>)

-----------------------------------------------------------------------------
(* SpecMain: main(), statement by statement.  Each constructor argument is  *)
(* drawn from a small set that holds the literal main() passes.  An         *)
(* exception ends main(): no statement runs once last.exc is set.           *)

\* the characters of the address literals
Address1 == <<"1", "9", "2", ".", "1", "6", "8", ".", "1", ".", "1">>
Address2 == <<"1", "0", ".", "0", ".", "0", ".", "1">>
NotAnAddress == <<"n", "o", "t", "-", "a", "n", "-", "a", "d", "d", "r", "e", "s", "s">>

MainNames == {"server1.misis.ru", "server2.misis.ru"}
MainAddresses == {Address1, Address2, NotAnAddress}
MainCPUs == {<<4, 2500>>, <<8, 3200>>}
MainPartitions == {<<500, "system">>, <<1500, "data">>}

\* an assert statement
assertion(cond) ==
    /\ last' = Call("assert", None, None, None,
                    IF cond THEN NoExc ELSE "AssertionError")
    /\ UNCHANGED <<networks, computers, components, n, x>>

\* the attribute access on None that main() makes when a lookup found nothing
attribute_of_None ==
    /\ last' = Call("getattr", None, None, None, "AttributeError")
    /\ UNCHANGED <<networks, computers, components, n, x>>

\* expected_output, as cells
expected_output ==
    <<"Network: MISIS network", "\n",
      "+", "-", "Host: server1.misis.ru", "\n",
      "|", " ", "+", "-", "192.168.1.1", "\n",
      "|", " ", "+", "-", "CPU, 4 cores @ 2500MHz", "\n",
      "|", " ", "\\", "-", "Memory, 16000 MiB", "\n",
      "\\", "-", "Host: server2.misis.ru", "\n",
      " ", " ", "+", "-", "10.0.0.1", "\n",
      " ", " ", "+", "-", "CPU, 8 cores @ 3200MHz", "\n",
      " ", " ", "\\", "-", "HDD, 2000 GiB", "\n",
      " ", " ", " ", " ", "+", "-", "[0]: 500 GiB, system", "\n",
      " ", " ", " ", " ", "\\", "-", "[1]: 1500 GiB, data">>

\* statement k of main(), which leaves main's variable c alone
Stmt(k, call) ==
    pc = k /\ last.exc = NoExc /\ call /\ pc' = k + 1 /\ UNCHANGED c

\* the Computer constructed last: the receiver of a chain of add calls
Built == Len(computers)

\* found = net.find_computer(..); count = sum(1 for _ in found.components);
\* assert count == expected
CountIs(found, expected) ==
    IF found = None THEN attribute_of_None
    ELSE assertion(Len(computers[found].items) = expected)

InitMain == InitNetwork("MISIS network") /\ pc = 1

NextMain ==
    \* n.add_computer(Computer(..).add_address(..).add_component(CPU(..))
    \*                .add_component(Memory(..)))
    \/ \E name \in MainNames : Stmt(1, Computer_init(name))
    \/ \E addr \in MainAddresses : Stmt(2, add_address(Built, addr))
    \/ \E cpu \in MainCPUs : Stmt(3, CPU_init(cpu[1], cpu[2]))
    \/ Stmt(4, add_component(Built, last.ret))
    \/ Stmt(5, Memory_init(16000))
    \/ Stmt(6, add_component(Built, last.ret))
    \/ Stmt(7, add_computer(n, Built))
    \* n.add_computer(Computer(..).add_address(..).add_component(CPU(..))
    \*                .add_component(Disk(..).add_partition(..).add_partition(..)))
    \/ \E name \in MainNames : Stmt(8, Computer_init(name))
    \/ \E addr \in MainAddresses : Stmt(9, add_address(Built, addr))
    \/ \E cpu \in MainCPUs : Stmt(10, CPU_init(cpu[1], cpu[2]))
    \/ Stmt(11, add_component(Built, last.ret))
    \/ \E st \in {SSD, MAGNETIC, 2} : Stmt(12, Disk_init(st, 2000))
    \/ \E p \in MainPartitions : Stmt(13, add_partition(last.ret, p[1], p[2]))
    \/ \E p \in MainPartitions : Stmt(14, add_partition(last.ret, p[1], p[2]))
    \/ Stmt(15, add_component(Built, last.ret))
    \/ Stmt(16, add_computer(n, Built))
    \* assert str(n) == expected_output
    \/ Stmt(17, assertion(Network_str(n) = expected_output))
    \* x = n.clone()
    \/ Stmt(18, Network_clone(n))
    \* c = x.find_computer("server2.misis.ru")
    \/ /\ pc = 19 /\ last.exc = NoExc
       /\ find_computer(x, "server2.misis.ru")
       /\ c' = last'.ret
       /\ pc' = 20
    \* c.add_component(Disk(Disk.SSD, 500).add_partition(500, "fast_storage"))
    \/ Stmt(20, Disk_init(SSD, 500))
    \/ Stmt(21, add_partition(last.ret, 500, "fast_storage"))
    \/ Stmt(22, IF c = None THEN attribute_of_None
                ELSE add_component(c, last.ret))
    \* assert x.find_computer("server1.misis.ru") is not None
    \/ Stmt(23, find_computer(x, "server1.misis.ru"))
    \/ Stmt(24, assertion(last.ret # None))
    \* the asserts on the component counts of server2.misis.ru in n and in x
    \/ Stmt(25, CountIs(found_computer(n, "server2.misis.ru"), 2))
    \/ Stmt(26, CountIs(found_computer(x, "server2.misis.ru"), 3))

SpecMain == InitMain /\ [][NextMain]_vars

\* the network of main(): "MISIS network" with server1.misis.ru (192.168.1.1,
\* CPU 4 @ 2500, Memory 16000) then server2.misis.ru (10.0.0.1, CPU 8 @ 3200,
\* MAGNETIC Disk of 2000 with partitions (500, "system"), (1500, "data"))
IsMainNetwork(j) ==
    Tree(j) =
        [name |-> "MISIS network",
         computers |->
            <<[name |-> "server1.misis.ru",
               addresses |-> <<Address1>>,
               items |-> <<[type |-> "CPU", cores |-> 4, mhz |-> 2500],
                           [type |-> "Memory", size |-> 16000]>>],
              [name |-> "server2.misis.ru",
               addresses |-> <<Address2>>,
               items |-> <<[type |-> "CPU", cores |-> 8, mhz |-> 3200],
                           [type |-> "Disk", storage_type |-> MAGNETIC,
                            size |-> 2000,
                            partitions |-> <<<<500, "system">>,
                                             <<1500, "data">>>>]>>]>>]

\* C5: the network of main() renders exactly as expected_output: eleven lines,
\* the header without glyph, the first host with "+-" and "| " before its
\* children, the last host with "\-" and two spaces before its children, four
\* spaces before the partitions, and no newline at the end.
WorkedExample ==
    IsMainNetwork(n) =>
        /\ Network_str(n) = expected_output
        /\ Len(Lines(Network_str(n))) = 11

\* C5 witness: main() built its network, and its assert on the text passed
WorkedExampleWitness ==
    /\ IsMainNetwork(n)
    /\ last.op = "assert" /\ last.exc = NoExc /\ pc = 18

-----------------------------------------------------------------------------
(* SpecFind: a caller builds the network n and looks objects up *)

LookupNames == HostNames \cup {"nonexistent"}

NextFind ==
    \/ \E name \in HostNames :
          LooseComputers = {} /\ Caller(Computer_init(name), MaxFindCalls)
    \/ LooseComponents = {} /\ Caller(CPU_init(2, 1000), MaxFindCalls)
    \/ LooseComponents = {} /\ Caller(Memory_init(512), MaxFindCalls)
    \/ \E k \in 1..Len(computers), e \in LooseComponents :
          Caller(add_component(k, e), MaxFindCalls)
    \/ \E k \in LooseComputers :
          Caller(add_computer(n, k), MaxFindCalls)
    \/ \E name \in LookupNames :
          Caller(find_computer(n, name), MaxFindCalls)
    \/ \E k \in 1..Len(computers), e \in 1..Len(components) :
          Caller(find(k, e), MaxFindCalls)

SpecFind == Init /\ [][NextFind]_vars

\* C7: find_computer(name) returns the earliest-inserted Computer of the
\* Network whose name is name, None when there is none; it never raises and
\* changes nothing.
FindComputerFirstMatch ==
    [][last'.op = "find_computer" =>
          LET cs == networks[last'.self].computers
              matches == {i \in 1..Len(cs) : computers[cs[i]].name = last'.arg}
          IN  /\ last'.exc = NoExc
              /\ IF matches = {}
                 THEN last'.ret = None
                 ELSE \E i \in matches :
                         /\ \A m \in matches : i <= m
                         /\ last'.ret = cs[i]
              /\ UNCHANGED <<networks, computers, components>>]_vars

\* C7 witness: two computers of the network have the name looked up, and the
\* first was returned
FindComputerFirstMatchWitness ==
    /\ last.op = "find_computer" /\ last.self = n
    /\ Len(networks[n].computers) = 2
    /\ \A i \in 1..2 : computers[networks[n].computers[i]].name = last.arg
    /\ last.ret = networks[n].computers[1]

\* C8 as claimed: find(elem) with an element that is not in the collection
\* returns an "absent" result and does not raise.
FindMissReturnsAbsent ==
    (last.op = "find" /\ last.arg \notin Range(computers[last.self].items))
        => (last.exc = NoExc /\ last.ret = None)

\* C8 amended: find(elem) with an element that is not in the collection raises
\* ValueError and returns nothing; with an element that is in the collection
\* it returns that element and does not raise; either way the collection, and
\* every other object, is unchanged.
FindRaisesOnMiss ==
    [][last'.op = "find" =>
          /\ IF last'.arg \in Range(computers[last'.self].items)
             THEN last'.exc = NoExc /\ last'.ret = last'.arg
             ELSE last'.exc = ValueError /\ last'.ret = None
          /\ UNCHANGED <<networks, computers, components>>]_vars

\* C8 witness: an element was looked up in a collection that holds another
\* element and not this one, and ValueError was raised
FindRaisesOnMissWitness ==
    /\ last.op = "find"
    /\ computers[last.self].items # <<>>
    /\ last.arg \notin Range(computers[last.self].items)
    /\ last.exc = ValueError

-----------------------------------------------------------------------------
(* SpecDisk: a caller constructs one Disk and adds partitions to it *)

DiskSizes == {-1, 0, 2}
PartitionSizes == {-1, 0, 1, 3}

NextDisk ==
    \/ \E st \in {SSD, MAGNETIC, 2}, size \in DiskSizes :
          LooseComponents = {} /\ Caller(Disk_init(st, size), MaxDiskCalls)
    \/ \E d \in Disks, size \in PartitionSizes, name \in PartitionNames :
          Caller(add_partition(d, size, name), MaxDiskCalls)

SpecDisk == Init /\ [][NextDisk]_vars

\* C3 as claimed: whatever the total size S of a Disk and whatever calls of
\* add_partition were made, the sizes of its partitions sum to at most S.
CapacityAnySize ==
    \A d \in Disks : SumSizes(components[d].partitions) <= components[d].size

\* C3 amended: for a Disk of total size S >= 0, whatever calls of
\* add_partition were made (sizes zero and negative and failing calls
\* included), the sizes of its partitions sum to at most S.
Capacity ==
    \A d \in Disks :
        components[d].size >= 0
            => SumSizes(components[d].partitions) <= components[d].size

\* C3 witness: a Disk of size >= 0 is full after a partition of negative size
\* and another were added
CapacityWitness ==
    \E d \in Disks :
        /\ components[d].size >= 0
        /\ Len(components[d].partitions) >= 2
        /\ \E i \in 1..Len(components[d].partitions) :
              components[d].partitions[i][1] < 0
        /\ SumSizes(components[d].partitions) = components[d].size

\* C4: add_partition(size, name) raises exactly when size exceeds the size of
\* the Disk minus the sum of the sizes of its partitions, and then the
\* partitions, the size and the storage type of the Disk are unchanged;
\* otherwise (size, name) is appended to the partitions and nothing else
\* changes.
AddPartitionAtomic ==
    [][last'.op = "add_partition" =>
          LET d == last'.self
              size == last'.arg[1]
              free == components[d].size - SumSizes(components[d].partitions)
          IN  /\ (last'.exc # NoExc) <=> (size > free)
              /\ Len(components') = Len(components)
              /\ \A e \in 1..Len(components) :
                    e # d => components'[e] = components[e]
              /\ components'[d].size = components[d].size
              /\ components'[d].storage_type = components[d].storage_type
              /\ components'[d].partitions =
                    (IF size > free
                     THEN components[d].partitions
                     ELSE components[d].partitions \o <<last'.arg>>)
              /\ UNCHANGED <<networks, computers>>]_vars

\* C4 witness: a call was rejected on a Disk that holds a partition, and a
\* call that fills a Disk exactly was accepted
AddPartitionAtomicWitness ==
    /\ last.op = "add_partition" /\ last.exc = ValueError
    /\ Len(components[last.self].partitions) >= 1
    /\ SumSizes(components[last.self].partitions) = components[last.self].size

====
